---- MODULE Spec2Model ----
(***************************************************************************)
(* Model of src/net.rs of TurnOn: the reachability monitor (monitor),      *)
(* the ICMP echo probe (ping) and the address resolution glue.             *)
(*                                                                         *)
(* The monitor is a stream: scan() runs one round future at a time.  A     *)
(* round future is polled by the single-threaded GLib main loop; between   *)
(* polls the main loop dispatches sources (socket readiness, the round     *)
(* timeout, the interval timer, the resolver callback).  The sources are   *)
(* the environment actions of this model, the polls are the program        *)
(* actions.  One poll of select_biased! first drives the probe stream      *)
(* (every woken probe, one after the other) and looks at the timeout only  *)
(* when the probe stream is pending.                                       *)
(*                                                                         *)
(* The Wake On LAN sender (wol, write_magic_packet) and the parsing of a   *)
(* Target have variables and specifications of their own (WolSpec,         *)
(* MagicSpec, ParseSpec); the monitor leaves them alone.                   *)
(***************************************************************************)
EXTENDS Integers, Sequences, FiniteSets, TLC

\* ---------------------------------------------------------------- bounds
MaxResolved == 2       \* longest address list the resolver returns
MaxTicks == 1          \* interval ticks buffered while a round runs
MaxCalls == 2          \* calls of wol()

\* ------------------------------------------------------ program constants
EchoLen == 56          \* echo_request.len() and response.len()
EchoRequestV4 == 8
EchoRequestV6 == 128
EchoReplyV4 == 0
EchoReplyV6 == 129

\* ------------------------------------------------------------- addresses
\* One address of each IP version; NoAddr is Option::None.
Addresses == {"192.0.2.1", "2001:db8::1"}
NoAddr == "none"
IsV4(a) == a = "192.0.2.1"

\* Target::Addr(ip) or Target::Dns(host)
Targets == {[kind |-> "Addr", addr |-> a] : a \in Addresses}
             \cup {[kind |-> "Dns", addr |-> NoAddr]}

\* ------------------------------------------------------- the environment
\* IOCondition values a socket source reports (sets of flags): the awaited
\* flag alone, or together with a flag GLib always watches for.
OutConds == {{"OUT"}, {"OUT", "HUP"}}
InConds == {{"IN"}, {"IN", "HUP"}}
NoCond == {}

\* Datagrams receive_from can find in a readable socket.
ReplyLens == {EchoLen - 1, EchoLen, EchoLen + 1}
ReplyTypes == {EchoReplyV4, EchoReplyV6}
Replies == [len : ReplyLens, type : ReplyTypes]
NoReply == [len |-> 0, type |-> 0]

\* Results of send_to / receive_from: an error, or a byte count.
IoErr == -2
NotYet == -1
SendResults == {IoErr, EchoLen, EchoLen - 1}

RECURSIVE SeqsUpTo(_)
SeqsUpTo(n) ==
  IF n = 0 THEN {<<>>}
  ELSE LET shorter == SeqsUpTo(n - 1)
       IN shorter \cup {Append(s, a) : s \in {t \in shorter : Len(t) = n - 1}, a \in Addresses}

\* What lookup_by_name_future completes with.
ResolverResults ==
  {[ok |-> FALSE, addrs |-> <<>>]}
    \cup {[ok |-> TRUE, addrs |-> s] : s \in SeqsUpTo(MaxResolved)}
NoResult == [ok |-> FALSE, addrs |-> <<NoAddr>>]

Min(a, b) == IF a < b THEN a ELSE b

VARIABLES
  target,       \* the monitored Target
  cached,       \* cached_ip_address
  phase,        \* "idle" | "resolving" | "racing": the round future
  lookup,       \* result of the pending lookup_by_name_future, or NoResult
  probes,       \* the ping futures of the round, in candidate order
  deadline,     \* glib::timeout_future(interval) of the current / last round:
                \* "unset" | "armed" | "fired"
  first,        \* the element of stream::iter(vec![()]) is not yet consumed
  ticking,      \* glib::interval_stream(interval) has been polled (source exists)
  ticks,        \* interval ticks not yet consumed by scan
  stream,       \* "open" | "ended": the scan stream
  round,        \* what the current / last round did (history); the probes
                \* of a finished round stay in `probes` as they ended
  calls,        \* the wol() futures, one record per call
  net,          \* the datagrams handed to the network by wol(), in order
  mac,          \* the mac_address argument of write_magic_packet
  packet,       \* the sink write_magic_packet wrote to, or NoPacket
  ip,           \* an IpAddr to be turned into text, or NoIp
  text,         \* the String handed to Target::from, or NoText
  parsed        \* the Target made from text, or NoTarget

monvars == <<target, cached, phase, lookup, probes, deadline, first, ticking,
             ticks, stream, round>>

wolvars == <<calls, net>>

magicvars == <<mac, packet>>

parsevars == <<ip, text, parsed>>

vars == <<monvars, wolvars, magicvars, parsevars>>

\* --------------------------------------------------------------- probes
\* A ping future.  pc is the await it is suspended at; res its outcome.
NewProbe(a) ==
  [addr |-> a, pc |-> "new", sock |-> "none", cond |-> NoCond,
   wcond |-> NoCond, rcond |-> NoCond, reply |-> NoReply, req |-> NotYet,
   sent |-> NotYet, rcvd |-> NotYet, res |-> "running"]

Running(p) == p.res = "running"

\* A probe the main loop has woken: its next poll makes progress.
Woken(p) ==
  /\ Running(p)
  /\ \/ p.pc = "new"
     \/ p.pc \in {"wait_out", "wait_in"} /\ p.cond # NoCond

\* Variant: the socket outlives the future (its descriptor is forgotten).
DroppedLeaks(p) == p

\* Dropping the ping future drops `socket`; the last reference closes the fd.
Dropped(p) ==
  [p EXCEPT !.sock = IF p.sock = "open" THEN "closed" ELSE p.sock]

\* socket.close()
Closed(p) == [p EXCEPT !.sock = "closed"]

\* return Err(..) / return Ok(()): the future completes and its locals drop.
Finish(p, r) == Dropped([p EXCEPT !.res = r, !.cond = NoCond])

\* The probe is abandoned by its owner (FuturesUnordered is dropped).
Cancel(p) == IF Running(p) THEN Finish(p, "Cancelled") ELSE p

RequestType(a) == IF IsV4(a) THEN EchoRequestV4 ELSE EchoRequestV6

ReplyMatches(a, type) ==
  \/ IsV4(a) /\ type = EchoReplyV4
  \/ ~IsV4(a) /\ type = EchoReplyV6

\* The byte count receive_from returns for a buffer of EchoLen bytes
\* (let mut response = [0; 56]): one datagram is read, and of a datagram
\* longer than the buffer only the first EchoLen bytes are stored and
\* counted, the rest is discarded without an error.
Received(len) == Min(len, EchoLen)

\* ping, first poll: create_dgram_socket(domain, protocol)?
PingOpen(p, opened) ==
  IF opened
    THEN [p EXCEPT !.sock = "open", !.pc = "wait_out", !.cond = NoCond]
    ELSE Finish(p, "SocketSetup")

\* Variant: any condition that includes OUT counts as writable.
PingSendLoose(p, s) ==
  IF "OUT" \notin p.cond
    THEN Finish(Closed([p EXCEPT !.wcond = p.cond]), "NotWritable")
    ELSE LET q == [p EXCEPT !.wcond = p.cond, !.req = RequestType(p.addr), !.sent = s]
         IN IF s = IoErr THEN Finish(q, "SendError")
            ELSE IF s # EchoLen THEN Finish(q, "ShortWrite")
            ELSE [q EXCEPT !.pc = "wait_in", !.cond = NoCond]

\* ping after the OUT source fired with p.cond; s is what send_to returns.
PingSend(p, s) ==
  IF p.cond # {"OUT"}
    THEN Finish(Closed([p EXCEPT !.wcond = p.cond]), "NotWritable")
    ELSE LET q == [p EXCEPT !.wcond = p.cond, !.req = RequestType(p.addr), !.sent = s]
         IN IF s = IoErr THEN Finish(q, "SendError")
            ELSE IF s # EchoLen THEN Finish(q, "ShortWrite")
            ELSE [q EXCEPT !.pc = "wait_in", !.cond = NoCond]

\* ping after the IN source fired with p.cond; r is the datagram receive_from
\* reads, or NoReply when receive_from returns an error.
PingReceive(p, r) ==
  IF p.cond # {"IN"}
    THEN Finish(Closed([p EXCEPT !.rcond = p.cond]), "NotReadable")
    ELSE IF r = NoReply
      THEN Finish([p EXCEPT !.rcond = p.cond, !.rcvd = IoErr], "RecvError")
    ELSE LET n == Received(r.len)
             q == Closed([p EXCEPT !.rcond = p.cond, !.reply = r, !.rcvd = n])
         IN IF n # EchoLen THEN Finish(q, "ShortRead")
            ELSE IF ReplyMatches(p.addr, r.type) THEN Finish(q, "Ok")
            ELSE Finish(q, "UnexpectedReply")

\* One poll of a woken ping future, every result the system calls can give.
PingPoll(p) ==
  CASE p.pc = "new" -> {PingOpen(p, o) : o \in BOOLEAN}
    [] p.pc = "wait_out" -> {PingSend(p, s) : s \in SendResults}
    [] p.pc = "wait_in" ->
         IF p.cond = {"IN"}
           THEN {PingReceive(p, r) : r \in Replies \cup {NoReply}}
           ELSE {PingReceive(p, NoReply)}

\* ------------------------------------------------------------ resolution
\* to_rust_addresses: an empty answer is an error (NotFound).
ToRustAddresses(result) ==
  IF result.ok /\ result.addrs = <<>>
    THEN [ok |-> FALSE, addrs |-> <<>>]
    ELSE result

\* .map(|addresses| addresses.unwrap_or_default())
UnwrapOrDefault(result) == IF result.ok THEN result.addrs ELSE <<>>

Launch(addrs) == [i \in 1..Len(addrs) |-> NewProbe(addrs[i])]

\* Variant: filter_map passes every completed probe on.
FilterMapPassesAll(p) == TRUE

\* filter_map: only an Ok result is passed on as a reachable address.
FilterMap(p) == p.res = "Ok"

\* ---------------------------------------------------------------- rounds
\* The arms of select_biased!: what the round future returns to scan.
Some(b) == [some |-> TRUE, val |-> b]
None == [some |-> FALSE, val |-> FALSE]

\* Variant: an empty probe stream ends the scan.
ArmStreamEndNone == None

\* reachable_addresses.next() gave None: the probe stream was empty.
ArmStreamEnd == Some(FALSE)

\* reachable_addresses.next() gave Some(address).
ArmReachable == Some(TRUE)

\* glib::timeout_future(interval) completed first.
ArmTimeout == Some(FALSE)

\* Variant: the first candidate is cached, whichever replied.
CacheValueFirst(ps, i) == ps[1].addr

\* state.replace(Some(address)) with the address the probe stream yielded.
CacheValue(ps, i) == ps[i].addr

\* Variant: the cell is read without being emptied.
TakeLeavesValue(c) == c

\* state.take(): what is left in the cell.
TakeLeaves(c) == NoAddr

\* Variant: the cached address is not used as the candidate.
CandidatesIgnoreCache(c, t) == IF t.kind = "Addr" THEN <<t.addr>> ELSE <<>>

\* The addresses known without a lookup: the cached one, else a literal target.
Candidates(c, t) ==
  IF c # NoAddr THEN <<c>>
  ELSE IF t.kind = "Addr" THEN <<t.addr>>
  ELSE <<>>

\* Variant: every target is looked up when nothing is cached.
NeedsLookupAnyTarget(c, t) == c = NoAddr

\* Variant: a DNS name is resolved in every round.
NeedsLookupAlways(c, t) == t.kind = "Dns"

\* The round resolves the DNS name: nothing cached and the target is a name.
NeedsLookup(c, t) == c = NoAddr /\ t.kind = "Dns"

\* Variant: the element stream never waits (rounds run back to back).
CanStartAlways(f, t) == TRUE

\* Variant: scan starts the next round while one is still running.
ScanReadyAlways(ph) == TRUE

\* scan polls the source for the next element only when the future of the
\* previous round has completed.
ScanReady(ph) == ph = "idle"

\* stream::iter(vec![()]).chain(interval_stream): the next element is there.
CanStart(f, t) == f \/ t > 0

ProbeFailed(p) == p.res \notin {"running", "Ok", "Cancelled"}

NoRound ==
  [n |-> 0, took |-> NoAddr, looked |-> FALSE, answer |-> NoResult,
   cands |-> <<>>, emits |-> 0, outcome |-> FALSE, by |-> "none",
   winner |-> 0, ticked |-> FALSE, prev |-> "none"]

\* The round future returns `item`: scan emits Some(outcome) and goes on, or
\* ends the stream on None.  The locals of the async block (the probe stream
\* with its futures, the timeout) drop.
Emit(ps, rd, item, how, w) ==
  /\ probes' = [i \in 1..Len(ps) |-> Cancel(ps[i])]
  /\ phase' = "idle"
  /\ lookup' = NoResult
  /\ ticking' = TRUE
  /\ stream' = IF item.some THEN "open" ELSE "ended"
  /\ round' = [rd EXCEPT !.emits = IF item.some THEN @ + 1 ELSE @,
                         !.outcome = item.val, !.by = how, !.winner = w]
  /\ UNCHANGED <<wolvars, magicvars, parsevars, target, deadline, first, ticks>>

\* Variant: the end of the probe stream is not noticed.
ExhaustedNever(ps) == FALSE

\* The probe stream of a round with no probe left running ends: None.
Exhausted(ps) == \A i \in 1..Len(ps) : ~Running(ps[i])

\* scan polls the chained stream for the next element and starts the round
\* future: state.take(), then the candidate addresses.
StartRound ==
  /\ stream = "open"
  /\ ScanReady(phase)
  /\ CanStart(first, ticks)
  /\ first' = FALSE
  /\ ticks' = IF first THEN ticks ELSE ticks - 1
  /\ cached' = TakeLeaves(cached)
  /\ deadline' = "armed"
  /\ phase' = IF NeedsLookup(cached, target) THEN "resolving" ELSE "racing"
  /\ probes' = Launch(Candidates(cached, target))
  /\ round' = [n |-> IF round.n = 0 THEN 1 ELSE 2,
               took |-> cached,
               looked |-> NeedsLookup(cached, target),
               answer |-> NoResult,
               cands |-> Candidates(cached, target),
               emits |-> 0, outcome |-> FALSE, by |-> "none", winner |-> 0,
               ticked |-> ~first /\ ticks > 0,
               prev |-> round.by]
  /\ lookup' = NoResult
  /\ UNCHANGED <<wolvars, magicvars, parsevars, target, ticking, stream>>

\* The resolver's callback: lookup_by_name_future completes.
ResolverCompletes ==
  /\ phase = "resolving"
  /\ lookup = NoResult
  /\ \E r \in ResolverResults : lookup' = r
  /\ UNCHANGED <<wolvars, magicvars, parsevars, target, cached, phase, probes, deadline, first, ticking,
                 ticks, stream, round>>

\* The round future is polled with the lookup complete: the addresses become
\* the probes of the round; with no address the probe stream ends at once.
Resolved ==
  /\ phase = "resolving"
  /\ lookup # NoResult
  /\ LET addrs == UnwrapOrDefault(ToRustAddresses(lookup))
     IN IF addrs = <<>>
          THEN /\ Emit(<<>>, [round EXCEPT !.answer = lookup], ArmStreamEnd,
                       "exhausted", 0)
               /\ UNCHANGED cached
          ELSE /\ probes' = Launch(addrs)
               /\ phase' = "racing"
               /\ lookup' = NoResult
               /\ round' = [round EXCEPT !.answer = lookup, !.cands = addrs]
               /\ UNCHANGED <<wolvars, magicvars, parsevars, target, cached, deadline, first, ticking, ticks, stream>>

\* A socket source fires: the main loop wakes probe i with a condition.
SocketReady(i) ==
  /\ phase = "racing"
  /\ i \in 1..Len(probes)
  /\ Running(probes[i])
  /\ probes[i].cond = NoCond
  /\ \/ /\ probes[i].pc = "wait_out"
        /\ \E c \in OutConds : probes' = [probes EXCEPT ![i].cond = c]
     \/ /\ probes[i].pc = "wait_in"
        /\ \E c \in InConds : probes' = [probes EXCEPT ![i].cond = c]
  /\ UNCHANGED <<wolvars, magicvars, parsevars, target, cached, phase, lookup, deadline, first, ticking,
                 ticks, stream, round>>

\* The poll of the probe stream drives woken probe i: the probe suspends
\* again, or it completes and filter_map passes it on or discards it.
ProbeStep(i) ==
  /\ phase = "racing"
  /\ i \in 1..Len(probes)
  /\ Woken(probes[i])
  /\ \E q \in PingPoll(probes[i]) :
       LET ps == [probes EXCEPT ![i] = q]
       IN IF ~Running(q) /\ FilterMap(q)
            THEN /\ cached' = CacheValue(ps, i)
                 /\ Emit(ps, round, ArmReachable, "success", i)
          ELSE IF ~Running(q) /\ Exhausted(ps)
            THEN /\ Emit(ps, round, ArmStreamEnd, "exhausted", 0)
                 /\ UNCHANGED cached
          ELSE /\ probes' = ps
               /\ UNCHANGED <<wolvars, magicvars, parsevars, target, cached, phase, lookup, deadline, first,
                              ticking, ticks, stream, round>>

\* The timeout source of the round fires.
DeadlineFires ==
  /\ phase # "idle"
  /\ deadline = "armed"
  /\ deadline' = "fired"
  /\ UNCHANGED <<wolvars, magicvars, parsevars, target, cached, phase, lookup, probes, first, ticking,
                 ticks, stream, round>>

\* Variant: the arms of the select are not biased, the timeout arm can be
\* taken whatever the probe stream holds.
StreamPendingUnbiased == TRUE

\* Variant: the timeout arm is reached only once the lookup has finished.
StreamPendingAfterLookup ==
  /\ \A i \in 1..Len(probes) : ~Woken(probes[i])
  /\ phase # "resolving"

\* select_biased! reaches the timeout arm only when the probe stream is
\* pending: no probe is woken and no lookup result waits.
StreamPending ==
  /\ \A i \in 1..Len(probes) : ~Woken(probes[i])
  /\ phase = "resolving" => lookup = NoResult

\* Variant: the round has no timeout arm.
NoTimeout == FALSE /\ UNCHANGED vars

\* The round future is polled with the timeout complete.
Timeout ==
  /\ phase # "idle"
  /\ deadline = "fired"
  /\ StreamPending
  /\ Emit(probes, round, ArmTimeout, "timeout", 0)
  /\ UNCHANGED cached

\* The interval source fires: a tick is queued for scan.
Tick ==
  /\ ticking
  /\ ticks < MaxTicks
  /\ ticks' = ticks + 1
  /\ UNCHANGED <<wolvars, magicvars, parsevars, target, cached, phase, lookup, probes, deadline, first,
                 ticking, stream, round>>

\* ------------------------------------------------- the parts at rest
\* No socket: gio::Socket::new has not run, or it failed.
NoSocket ==
  [state |-> "none", family |-> "none", type |-> "none", protocol |-> "none",
   broadcast |-> FALSE]

\* A wol() that has not been called.
NoCall ==
  [mac |-> <<>>, pc |-> "idle", sock |-> NoSocket, cond |-> NoCond,
   wcond |-> NoCond, payload |-> <<>>, sent |-> NotYet, res |-> "none"]

NoMac == <<>>

NoPacket == [bytes |-> <<>>, cap |-> 0, ok |-> FALSE]

NoIp == [v |-> 0, parts |-> <<>>]

NoText == <<"none">>

NoTarget == [kind |-> "none", addr |-> NoIp, host |-> NoText]

WolIdle == calls = [i \in 1..MaxCalls |-> NoCall] /\ net = <<>>

MagicIdle == mac = NoMac /\ packet = NoPacket

ParseIdle == ip = NoIp /\ text = NoText /\ parsed = NoTarget

\* A monitor that is never polled.
MonitorIdle ==
  /\ target = [kind |-> "Dns", addr |-> NoAddr]
  /\ cached = NoAddr
  /\ phase = "idle"
  /\ lookup = NoResult
  /\ probes = <<>>
  /\ deadline = "unset"
  /\ first = TRUE
  /\ ticking = FALSE
  /\ ticks = 0
  /\ stream = "open"
  /\ round = NoRound

Init ==
  /\ WolIdle
  /\ MagicIdle
  /\ ParseIdle
  /\ target \in Targets
  /\ cached = NoAddr
  /\ phase = "idle"
  /\ lookup = NoResult
  /\ probes = <<>>
  /\ deadline = "unset"
  /\ first = TRUE
  /\ ticking = FALSE
  /\ ticks = 0
  /\ stream = "open"
  /\ round = NoRound

Next ==
  \/ StartRound
  \/ ResolverCompletes
  \/ Resolved
  \/ \E i \in 1..MaxResolved : SocketReady(i)
  \/ \E i \in 1..MaxResolved : ProbeStep(i)
  \/ DeadlineFires
  \/ Timeout
  \/ Tick

Spec == Init /\ [][Next]_vars

\* The main loop polls a woken round future and dispatches its timer
\* sources; sockets and the resolver may stay silent for ever.
FairSpec ==
  /\ Spec
  /\ WF_vars(StartRound)
  /\ WF_vars(Resolved)
  /\ WF_vars(\E i \in 1..MaxResolved : ProbeStep(i))
  /\ WF_vars(DeadlineFires)
  /\ WF_vars(Timeout)
  /\ WF_vars(Tick)

\* ---------------------------------------------------- write_magic_packet
MacLen == 6            \* bytes of a MacAddr6, and of the 0xff header
SyncByte == 255        \* 0xff
Repetitions == 16      \* for _ in 0..16
MagicLen == 102        \* [0; 102]

\* Bytes a MAC address is built from, and the addresses written.
MacBytes == {0, 38, SyncByte}

Macs == [1..MacLen -> MacBytes]

\* io::Write sinks: a Vec grows, a slice takes what fits.
SinkCaps == {MagicLen - 1, MagicLen, MagicLen + 1}

EmptySink(cap) == [bytes |-> <<>>, cap |-> cap, ok |-> TRUE]

\* Write::write_all: all of data, or what fits and an error.  After an
\* error the ? operator returns, nothing more is written.
WriteAll(sink, data) ==
  IF ~sink.ok THEN sink
  ELSE IF Len(sink.bytes) + Len(data) <= sink.cap
    THEN [sink EXCEPT !.bytes = @ \o data]
    ELSE [sink EXCEPT !.bytes = @ \o SubSeq(data, 1, sink.cap - Len(@)),
                      !.ok = FALSE]

\* Variant: the loop runs one time less.
RECURSIVE WriteTimesOneLess(_, _, _)
WriteTimesOneLess(sink, data, n) ==
  IF n <= 1 THEN sink ELSE WriteTimesOneLess(WriteAll(sink, data), data, n - 1)

\* for _ in 0..n { sink.write_all(data)?; }
RECURSIVE WriteTimes(_, _, _)
WriteTimes(sink, data, n) ==
  IF n = 0 THEN sink ELSE WriteTimes(WriteAll(sink, data), data, n - 1)

WriteMagicPacket(sink, m) ==
  WriteTimes(WriteAll(sink, [j \in 1..MacLen |-> SyncByte]), m, Repetitions)

\* One call of write_magic_packet on an empty sink.
Write ==
  /\ packet.ok
  /\ packet.bytes = <<>>
  /\ packet' = WriteMagicPacket(packet, mac)
  /\ UNCHANGED <<monvars, wolvars, parsevars, mac>>

MagicInit ==
  /\ MonitorIdle
  /\ WolIdle
  /\ ParseIdle
  /\ mac \in Macs
  /\ \E cap \in SinkCaps : packet = EmptySink(cap)

MagicNext == Write

MagicSpec == MagicInit /\ [][MagicNext]_vars

\* ------------------------------------------------------------------- wol
BroadcastAddr == "255.255.255.255"     \* Ipv4Addr::BROADCAST
DiscardPort == 9

\* The MAC addresses wol() is called with.
MacSamples ==
  {<<38, 206, 85, 165, 194, 51>>, [j \in 1..MacLen |-> SyncByte],
   [j \in 1..MacLen |-> 0]}

WolSendResults == {IoErr, MagicLen, MagicLen - 1}

\* gio::Socket::new(Ipv4, Datagram, Udp)
NewSocket ==
  [state |-> "open", family |-> "Ipv4", type |-> "Datagram",
   protocol |-> "Udp", broadcast |-> FALSE]

SetBroadcast(sock, b) == [sock EXCEPT !.broadcast = b]

\* The call returns or unwinds: its socket is dropped.
WolFinish(c, r) ==
  [c EXCEPT !.pc = "done", !.res = r, !.cond = NoCond,
            !.sock.state = IF @ = "open" THEN "closed" ELSE @]

\* The call and its first poll: the socket is made, or the call fails.
WolOpen(m, opened) ==
  IF opened
    THEN [NoCall EXCEPT !.mac = m, !.pc = "wait_out", !.res = "running",
                        !.sock = SetBroadcast(NewSocket, TRUE)]
    ELSE WolFinish([NoCall EXCEPT !.mac = m], "SocketSetup")

\* Variant: any condition with the OUT bit counts as writable.
WolWritableLoose(cond) == "OUT" \in cond

\* condition != glib::IOCondition::OUT is the failure.
WolWritable(cond) == cond = {"OUT"}

\* Variant: the packet is built in a buffer the calls share, which holds
\* the address of the first call.
PayloadShared(cs, i) ==
  LET w == WriteMagicPacket(EmptySink(MagicLen), cs[1].mac)
  IN [ok |-> w.ok,
      bytes |-> w.bytes \o [j \in 1..(MagicLen - Len(w.bytes)) |-> 0]]

\* let mut payload = [0; 102]; write_magic_packet(&mut payload.as_mut_slice(), ..)
PayloadOf(cs, i) ==
  LET w == WriteMagicPacket(EmptySink(MagicLen), cs[i].mac)
  IN [ok |-> w.ok,
      bytes |-> w.bytes \o [j \in 1..(MagicLen - Len(w.bytes)) |-> 0]]

Datagram(i, c, bytes) ==
  [from |-> i, sock |-> c.sock, to |-> BroadcastAddr, port |-> DiscardPort,
   bytes |-> bytes]

\* The poll after the wait for writability, with the outcome s of send_to:
\* the state of the call and what went out.
WolPoll(cs, i, s) ==
  LET c == [cs[i] EXCEPT !.wcond = cs[i].cond]
      p == PayloadOf(cs, i)
  IN IF ~WolWritable(c.cond)
       THEN [call |-> WolFinish(c, "NotWritable"), out |-> <<>>]
     ELSE IF ~p.ok
       THEN [call |-> WolFinish(c, "Panic"), out |-> <<>>]
     ELSE IF s = IoErr
       THEN [call |-> WolFinish([c EXCEPT !.payload = p.bytes, !.sent = s],
                                "SendError"),
             out |-> <<>>]
     ELSE [call |-> WolFinish([c EXCEPT !.payload = p.bytes, !.sent = s],
                              IF s = MagicLen THEN "Ok" ELSE "Panic"),
           out |-> <<Datagram(i, c, SubSeq(p.bytes, 1, s))>>]

Wol(i) ==
  /\ calls[i].pc = "idle"
  /\ \E m \in MacSamples, opened \in BOOLEAN :
       calls' = [calls EXCEPT ![i] = WolOpen(m, opened)]
  /\ UNCHANGED <<monvars, magicvars, parsevars, net>>

\* The main loop finds the socket's condition source ready.
WolSocketReady(i) ==
  /\ calls[i].pc = "wait_out"
  /\ calls[i].cond = NoCond
  /\ \E c \in OutConds : calls' = [calls EXCEPT ![i].cond = c]
  /\ UNCHANGED <<monvars, magicvars, parsevars, net>>

WolStep(i) ==
  /\ calls[i].pc = "wait_out"
  /\ calls[i].cond # NoCond
  /\ \E s \in WolSendResults :
       LET r == WolPoll(calls, i, s)
       IN /\ calls' = [calls EXCEPT ![i] = r.call]
          /\ net' = net \o r.out
  /\ UNCHANGED <<monvars, magicvars, parsevars>>

WolInit ==
  /\ MonitorIdle
  /\ MagicIdle
  /\ ParseIdle
  /\ WolIdle

WolNext ==
  \/ \E i \in 1..MaxCalls : Wol(i)
  \/ \E i \in 1..MaxCalls : WolSocketReady(i)
  \/ \E i \in 1..MaxCalls : WolStep(i)

WolSpec == WolInit /\ [][WolNext]_vars

\* ---------------------------------------------------------------- Target
\* Texts are sequences of characters.  IpAddr's Display and FromStr are
\* those of the standard library: dotted decimal for IPv4; for IPv6 lower
\* case hexadecimal groups with the first longest run of two or more zero
\* groups written "::", and "::ffff:a.b.c.d" for an IPv4-mapped address.
HexDigits ==
  <<"0", "1", "2", "3", "4", "5", "6", "7", "8", "9", "a", "b", "c", "d",
    "e", "f">>

UpperHex == <<"A", "B", "C", "D", "E", "F">>

Decimal == 10

Hex == 16

OctetMax == 255

GroupMax == 65535

V4Len == 4

V6Len == 8

DigitValues(c) ==
  {d \in 0..(Hex - 1) :
     HexDigits[d + 1] = c \/ (d >= Decimal /\ UpperHex[d - Decimal + 1] = c)}

IsDigit(c, base) == \E d \in DigitValues(c) : d < base

DigitValue(c) == CHOOSE d \in DigitValues(c) : TRUE

RECURSIVE ToDigits(_, _)
ToDigits(n, base) ==
  IF n < base THEN <<HexDigits[n + 1]>>
  ELSE ToDigits(n \div base, base) \o <<HexDigits[(n % base) + 1]>>

RECURSIVE FromDigits(_, _)
FromDigits(t, base) ==
  IF t = <<>> THEN 0
  ELSE FromDigits(SubSeq(t, 1, Len(t) - 1), base) * base + DigitValue(t[Len(t)])

\* The pieces of t between the occurrences of the character c.
RECURSIVE Split(_, _)
Split(t, c) ==
  IF \A k \in 1..Len(t) : t[k] # c THEN <<t>>
  ELSE LET k == CHOOSE k \in 1..Len(t) :
                  t[k] = c /\ \A j \in 1..(k - 1) : t[j] # c
       IN <<SubSeq(t, 1, k - 1)>> \o Split(SubSeq(t, k + 1, Len(t)), c)

RECURSIVE Join(_, _)
Join(ts, c) ==
  IF ts = <<>> THEN <<>>
  ELSE IF Len(ts) = 1 THEN ts[1]
  ELSE ts[1] \o <<c>> \o Join(Tail(ts), c)

V4(parts) == [v |-> 4, parts |-> parts]

V6(parts) == [v |-> 6, parts |-> parts]

FormatV4(parts) ==
  Join([i \in 1..V4Len |-> ToDigits(parts[i], Decimal)], ".")

\* One to three decimal digits, no leading zero, at most 255.
OctetOk(t) ==
  /\ Len(t) \in 1..3
  /\ \A k \in 1..Len(t) : IsDigit(t[k], Decimal)
  /\ Len(t) > 1 => t[1] # "0"
  /\ FromDigits(t, Decimal) <= OctetMax

ParseV4(t) ==
  LET ps == Split(t, ".")
  IN IF Len(ps) = V4Len /\ \A i \in 1..Len(ps) : OctetOk(ps[i])
       THEN V4([i \in 1..V4Len |-> FromDigits(ps[i], Decimal)])
       ELSE NoIp

\* The first longest run of zero groups.
ZeroRun(g) ==
  LET runs == {r \in (1..V6Len) \X (0..V6Len) :
                 /\ r[1] + r[2] - 1 <= V6Len
                 /\ \A k \in r[1]..(r[1] + r[2] - 1) : g[k] = 0}
      best == CHOOSE r \in runs :
                \A q \in runs : q[2] < r[2] \/ (q[2] = r[2] /\ q[1] >= r[1])
  IN [start |-> best[1], len |-> best[2]]

IsV4Mapped(g) == (\A k \in 1..5 : g[k] = 0) /\ g[6] = GroupMax

HexGroups(gs) == Join([i \in 1..Len(gs) |-> ToDigits(gs[i], Hex)], ":")

FormatV6(g) ==
  IF IsV4Mapped(g)
    THEN <<":", ":", "f", "f", "f", "f", ":">>
         \o FormatV4(<<g[7] \div 256, g[7] % 256, g[8] \div 256, g[8] % 256>>)
  ELSE LET z == ZeroRun(g)
       IN IF z.len > 1
            THEN HexGroups(SubSeq(g, 1, z.start - 1)) \o <<":", ":">>
                 \o HexGroups(SubSeq(g, z.start + z.len, V6Len))
            ELSE HexGroups(g)

\* One to four hexadecimal digits.
GroupOk(t) == Len(t) \in 1..4 /\ \A k \in 1..Len(t) : IsDigit(t[k], Hex)

\* The groups of a run of ":"-separated pieces, the last of which may be a
\* dotted IPv4 address that stands for two groups; <<-1>> when ill-formed.
BadGroups == <<-1>>

GroupsOf(ts) ==
  IF ts = <<>> THEN <<>>
  ELSE LET n == Len(ts)
           quad == ParseV4(ts[n])
       IN IF quad # NoIp /\ \A i \in 1..(n - 1) : GroupOk(ts[i])
            THEN [i \in 1..(n - 1) |-> FromDigits(ts[i], Hex)]
                 \o <<quad.parts[1] * 256 + quad.parts[2],
                      quad.parts[3] * 256 + quad.parts[4]>>
          ELSE IF \A i \in 1..n : GroupOk(ts[i])
            THEN [i \in 1..n |-> FromDigits(ts[i], Hex)]
          ELSE BadGroups

Pieces(t) == IF t = <<>> THEN <<>> ELSE Split(t, ":")

ParseV6(t) ==
  LET dbl == {k \in 1..(Len(t) - 1) : t[k] = ":" /\ t[k + 1] = ":"}
  IN IF dbl = {}
       THEN LET gs == GroupsOf(Pieces(t))
            IN IF gs # BadGroups /\ Len(gs) = V6Len THEN V6(gs) ELSE NoIp
     ELSE LET k == CHOOSE k \in dbl : \A j \in dbl : k <= j
              hp == Pieces(SubSeq(t, 1, k - 1))
              head == IF \A i \in 1..Len(hp) : GroupOk(hp[i])
                        THEN [i \in 1..Len(hp) |-> FromDigits(hp[i], Hex)]
                        ELSE BadGroups
              tail == GroupsOf(Pieces(SubSeq(t, k + 2, Len(t))))
          IN IF head # BadGroups /\ tail # BadGroups
                /\ Len(head) + Len(tail) <= V6Len - 1
               THEN V6(head \o [i \in 1..(V6Len - Len(head) - Len(tail)) |-> 0]
                       \o tail)
               ELSE NoIp

\* IpAddr: Display and FromStr.
IpToString(a) == IF a.v = 4 THEN FormatV4(a.parts) ELSE FormatV6(a.parts)

ParseIp(t) == IF ParseV4(t) # NoIp THEN ParseV4(t) ELSE ParseV6(t)

TargetAddr(a) == [kind |-> "Addr", addr |-> a, host |-> NoText]

TargetDns(t) == [kind |-> "Dns", addr |-> NoIp, host |-> t]

\* Variant: every text is taken for a DNS name.
TargetFromDnsOnly(t) == TargetDns(t)

\* host.parse().map_or_else(|_| Self::Dns(host), Self::Addr)
TargetFrom(t) ==
  IF ParseIp(t) # NoIp THEN TargetAddr(ParseIp(t)) ELSE TargetDns(t)

\* The addresses and the texts tried.
V4Octets == {0, 7, 10, OctetMax}

V6Groups == {0, 10, GroupMax}

IpSamples ==
  {V4(p) : p \in [1..V4Len -> V4Octets]} \cup
  {V6(g) : g \in [1..V6Len -> V6Groups]}

\* Texts that are not IP literals.
InvalidTexts ==
  {<<>>,
   <<"n", "a", "s">>,
   <<"n", "a", "s", ".", "l", "a", "n">>,
   <<"1", ".", "2", ".", "3">>,
   <<"1", ".", "2", ".", "3", ".", "4", ".", "5">>,
   <<"2", "5", "6", ".", "1", ".", "1", ".", "1">>,
   <<"0", "1", ".", "2", ".", "3", ".", "4">>,
   <<"1", ".", ".", "2", ".", "3">>,
   <<"1", ".", "2", ".", "3", ".", "4", " ">>,
   <<"1", ":", "2">>,
   <<":", ":", ":">>,
   <<"g", ":", ":", "1">>,
   <<"1", "2", "3", "4", "5", ":", ":">>,
   <<"1", ":", ":", "2", ":", ":", "3">>,
   <<"1", ":", "2", ":", "3", ":", "4", ":", "5", ":", "6", ":", "7", ":",
     "8", ":", ":">>,
   <<"1", ":", "2", ":", "3", ":", "4", ":", "5", ":", "6", ":", "7", ":",
     "8", ":", "9">>,
   <<"f", "e", "8", "0", ":", ":", "1", "%", "e", "t", "h", "0">>}

\* IP literals that are not in the form Display writes.
OddLiterals ==
  {<<":", ":", "A">>,
   <<"0", ":", "0", ":", "0", ":", "0", ":", "0", ":", "0", ":", "0", ":",
     "0", "1">>,
   <<":", ":", "1", ".", "2", ".", "3", ".", "4">>,
   <<"1", ":", "2", ":", "3", ":", "4", ":", "5", ":", "6", ":", "7", ":",
     ":">>}

\* The text of an address: IpAddr's Display.
Display ==
  /\ ip # NoIp
  /\ text = NoText
  /\ text' = IpToString(ip)
  /\ UNCHANGED <<monvars, wolvars, magicvars, ip, parsed>>

\* Target::from(text)
From ==
  /\ text # NoText
  /\ parsed = NoTarget
  /\ parsed' = TargetFrom(text)
  /\ UNCHANGED <<monvars, wolvars, magicvars, ip, text>>

ParseInit ==
  /\ MonitorIdle
  /\ WolIdle
  /\ MagicIdle
  /\ parsed = NoTarget
  /\ \/ ip \in IpSamples /\ text = NoText
     \/ ip = NoIp /\ text \in InvalidTexts \cup OddLiterals

ParseNext == Display \/ From

ParseSpec == ParseInit /\ [][ParseNext]_vars

\* ---------------------------------------------------------------- claims
\* A round has returned and its element is out.
RoundOver == phase = "idle" /\ round.n > 0

ProbeIds == 1..Len(probes)

\* C1: a round emits true exactly when one of its probes completed
\* successfully before the timeout arm was taken; a round that emits false
\* without its deadline ended only after every probe had failed (no probe
\* was abandoned by another probe's failure); false by timeout needs the
\* deadline to have fired.
C1_RaceOutcome ==
  RoundOver =>
    /\ round.outcome <=> \E i \in ProbeIds : probes[i].res = "Ok"
    /\ round.outcome <=> round.by = "success"
    /\ round.by = "exhausted" => \A i \in ProbeIds : ProbeFailed(probes[i])
    /\ round.by = "timeout" => deadline = "fired"
    /\ (\E i \in ProbeIds : probes[i].res = "Cancelled")
         => round.by \in {"success", "timeout"}

\* A failed probe did not end the race: a later candidate still won it.
C1_Witness ==
  /\ RoundOver
  /\ round.outcome
  /\ \E i \in ProbeIds : ProbeFailed(probes[i])

\* C2: after a round whose outcome is false the cache is empty, and the next
\* round takes an empty cache, whatever the failed round had taken.
C2_FalseLeavesCacheEmpty ==
  /\ RoundOver /\ ~round.outcome => cached = NoAddr
  /\ round.prev \in {"exhausted", "timeout"} => round.took = NoAddr

\* A round that started from a cached address failed and left nothing.
C2_Witness ==
  /\ RoundOver
  /\ ~round.outcome
  /\ round.took # NoAddr
  /\ cached = NoAddr

\* C3: the cache, whenever present, holds the address of the one probe of
\* the last round that replied successfully, whatever its position among the
\* candidates; a round that emits true leaves the cache present.
C3_CacheIsFirstResponder ==
  /\ cached # NoAddr =>
       /\ RoundOver
       /\ round.outcome
       /\ round.winner \in ProbeIds
       /\ round.winner \in 1..Len(round.cands)
       /\ round.cands[round.winner] = cached
       /\ probes[round.winner].addr = cached
       /\ \A i \in ProbeIds : probes[i].res = "Ok" <=> i = round.winner
  /\ RoundOver /\ round.outcome => cached # NoAddr

\* The second of two different resolved addresses replied and is cached.
C3_Witness ==
  /\ cached # NoAddr
  /\ Len(round.cands) = 2
  /\ round.cands[1] # round.cands[2]
  /\ round.winner = 2
  /\ cached = round.cands[2]

\* C4: the candidates of a round are the cached address alone if there was
\* one (no lookup), else the literal target alone (no lookup), else the
\* addresses the resolver answered; a resolver failure and an empty answer
\* both give no candidate and the round goes on to emit.
C4_CandidatePriority ==
  round.n > 0 =>
    /\ round.took # NoAddr => round.cands = <<round.took>> /\ ~round.looked
    /\ round.took = NoAddr /\ target.kind = "Addr"
         => round.cands = <<target.addr>> /\ ~round.looked
    /\ round.took = NoAddr /\ target.kind = "Dns" =>
         /\ round.looked
         /\ round.answer = NoResult => round.cands = <<>>
         /\ round.answer # NoResult /\ round.answer.ok
              => round.cands = round.answer.addrs
         /\ round.answer # NoResult /\ ~round.answer.ok => round.cands = <<>>
         /\ round.answer # NoResult /\ round.cands = <<>>
              => RoundOver /\ ~round.outcome /\ round.emits = 1 /\ stream = "open"
    /\ phase = "resolving" <=> round.looked /\ round.answer = NoResult /\ ~RoundOver
    /\ phase # "resolving" =>
         /\ Len(probes) = Len(round.cands)
         /\ \A i \in ProbeIds : probes[i].addr = round.cands[i]

\* The resolver answered with no address at all and the round emitted false.
C4_Witness ==
  /\ RoundOver
  /\ round.looked
  /\ round.answer # NoResult
  /\ round.answer.ok
  /\ round.answer.addrs = <<>>
  /\ ~round.outcome

\* C5: no probe failure and no resolution failure ends the stream: the
\* stream stays open, a round all of whose candidates failed (or that had
\* none) has emitted false, and the monitor is ready for the next round.
C5_FailuresAbsorbed ==
  /\ stream = "open"
  /\ RoundOver /\ (\A i \in ProbeIds : ProbeFailed(probes[i]))
       => ~round.outcome /\ round.emits = 1
  /\ RoundOver /\ round.looked /\ ~ToRustAddresses(round.answer).ok
       => ~round.outcome /\ round.emits = 1

\* A round has emitted true after a probe of it failed, and the round
\* before it had ended with every candidate failed (or none resolved).
C5_Witness ==
  /\ RoundOver
  /\ round.n = 2
  /\ round.prev = "exhausted"
  /\ round.outcome
  /\ \E i \in ProbeIds : ProbeFailed(probes[i])

\* C6: one boolean per round on a stream that never ends: a round has
\* emitted at most once, exactly once when it is over, every round that
\* starts is eventually over (timers make progress; probes and the resolver
\* need not), and rounds keep starting.
C6_OnePerRoundForever ==
  /\ [](round.emits \in {0, 1})
  /\ [](RoundOver => round.emits = 1 /\ stream = "open")
  /\ ((phase # "idle") ~> RoundOver)
  /\ []<>(phase # "idle")

\* A later round ended by its deadline with a probe that never got a reply.
C6_Witness ==
  /\ RoundOver
  /\ round.n = 2
  /\ round.by = "timeout"
  /\ \E i \in ProbeIds : probes[i].res = "Cancelled" /\ probes[i].pc = "wait_in"

\* C7 as stated: the first round starts without a tick, its element is out
\* before a full interval (its deadline) has elapsed, and every later round
\* starts on a tick.
C7_FirstBeforeInterval ==
  /\ round.n = 1 => ~round.ticked
  /\ RoundOver /\ round.n = 1 => round.by # "timeout"
  /\ round.n = 2 => round.ticked

\* C7 amended: the first round starts at once (no tick exists, none is
\* consumed); its element waits a full interval only when the round ends by
\* its fired deadline; every later round starts by consuming a tick.
C7_FirstStartsAtOnce ==
  /\ round.n = 0 => first /\ ~ticking /\ ticks = 0 /\ CanStart(first, ticks)
  /\ round.n = 1 => ~round.ticked /\ ~first
  /\ round.n = 1 /\ ~RoundOver => ~ticking /\ ticks = 0
  /\ RoundOver /\ round.n = 1 /\ round.by = "timeout" => deadline = "fired"
  /\ round.n = 2 => round.ticked
  /\ ticks \in 0..MaxTicks

\* The first round has ended by its deadline and a later round runs on a tick.
C7_Witness ==
  /\ round.n = 2
  /\ round.ticked
  /\ round.prev = "timeout"
  /\ phase # "idle"

\* C8: a probe that has returned or was cancelled holds no open socket, and
\* after a round has emitted no probe of it holds one.
C8_SocketsReleased ==
  /\ \A i \in ProbeIds : ~Running(probes[i]) => probes[i].sock # "open"
  /\ \A i \in ProbeIds : probes[i].sock = "none" => probes[i].pc = "new"
  /\ \A i \in ProbeIds : Running(probes[i]) /\ probes[i].pc # "new"
       => probes[i].sock = "open"
  /\ phase = "idle" => \A i \in ProbeIds : probes[i].sock # "open"

\* The deadline cancelled a probe that waited for its reply, after another
\* probe of the round had failed with a short write.
C8_Witness ==
  /\ RoundOver
  /\ round.by = "timeout"
  /\ \E i \in ProbeIds :
       /\ probes[i].res = "Cancelled"
       /\ probes[i].pc = "wait_in"
       /\ probes[i].sock = "closed"
  /\ \E i \in ProbeIds : probes[i].res = "ShortWrite" /\ probes[i].sock = "closed"

\* What a probe did agrees with the protocol of ping, step by step.
ProbeFollowsProtocol(p) ==
  /\ p.res = "Ok" <=>
       /\ p.sock = "closed"
       /\ p.wcond = {"OUT"}
       /\ p.req = (IF IsV4(p.addr) THEN EchoRequestV4 ELSE EchoRequestV6)
       /\ p.sent = EchoLen
       /\ p.rcond = {"IN"}
       /\ p.rcvd = EchoLen
       /\ p.reply.type = (IF IsV4(p.addr) THEN EchoReplyV4 ELSE EchoReplyV6)
  /\ p.res = "SocketSetup" => p.sock = "none" /\ p.wcond = NoCond
  /\ p.res = "NotWritable" <=> p.wcond \notin {NoCond, {"OUT"}}
  /\ p.wcond # {"OUT"} => p.req = NotYet /\ p.sent = NotYet
  /\ p.res = "SendError" <=> p.sent = IoErr
  /\ p.res = "ShortWrite" <=> p.sent \notin {NotYet, IoErr, EchoLen}
  /\ p.sent # EchoLen => p.rcond = NoCond
  /\ p.res = "NotReadable" <=> p.rcond \notin {NoCond, {"IN"}}
  /\ p.rcond # {"IN"} => p.rcvd = NotYet
  /\ p.res = "RecvError" <=> p.rcvd = IoErr
  /\ p.res = "ShortRead" <=> p.rcvd \notin {NotYet, IoErr, EchoLen}
  /\ p.res = "UnexpectedReply" <=>
       /\ p.rcvd = EchoLen
       /\ p.reply.type # (IF IsV4(p.addr) THEN EchoReplyV4 ELSE EchoReplyV6)

\* C9: a probe succeeds exactly when the socket opened, the condition was
\* exactly OUT, the request of its IP version went out in full, the condition
\* was exactly IN, EchoLen bytes were received and the first byte is the
\* reply code of its IP version; the first failing step names the error;
\* nothing is sent on a socket not writable, nothing read on one not readable.
C9_ProbeProtocol == \A i \in ProbeIds : ProbeFollowsProtocol(probes[i])

\* An IPv6 probe succeeded and an IPv4 probe of the same round was refused
\* for a condition that includes OUT without being OUT.
C9_Witness ==
  /\ \E i \in ProbeIds : probes[i].res = "Ok" /\ ~IsV4(probes[i].addr)
  /\ \E i \in ProbeIds :
       /\ probes[i].res = "NotWritable"
       /\ probes[i].wcond = {"OUT", "HUP"}

\* C10 as stated: a probe never succeeds on a reply datagram whose length
\* is not EchoLen.
C10_WrongLengthRejected ==
  \A i \in ProbeIds : probes[i].res = "Ok" => probes[i].reply.len = EchoLen

\* C15: a round that took a cached address probes that address alone; if it
\* emits false the cache is left empty, and the round that starts next takes
\* nothing and gets its candidates from the target (the literal address, or
\* a new lookup of the name).
C15_SelfHealing ==
  /\ [](round.n > 0 /\ round.took # NoAddr =>
          /\ round.cands = <<round.took>>
          /\ ~round.looked
          /\ phase # "resolving"
          /\ Len(probes) = 1
          /\ probes[1].addr = round.took)
  /\ [](RoundOver /\ round.took # NoAddr /\ ~round.outcome => cached = NoAddr)
  /\ [][RoundOver /\ round.took # NoAddr /\ ~round.outcome /\ phase' # "idle" =>
          /\ round'.took = NoAddr
          /\ round'.prev \in {"exhausted", "timeout"}
          /\ target.kind = "Addr" =>
               round'.cands = <<target.addr>> /\ ~round'.looked
          /\ target.kind = "Dns" =>
               round'.cands = <<>> /\ round'.looked /\ phase' = "resolving"]_vars

\* The cached address of a DNS target did not reply before the deadline:
\* the round probed it alone, emitted false and left the cache empty.
C15_Witness ==
  /\ RoundOver
  /\ target.kind = "Dns"
  /\ round.took # NoAddr
  /\ Len(probes) = 1
  /\ round.by = "timeout"
  /\ ~round.outcome
  /\ cached = NoAddr

\* C16: rounds never overlap. A round starts (consuming the initial element
\* or a tick) only when no round is running and the previous round has
\* emitted; it takes exactly the cache value the previous round left. While a
\* round runs, ticks may arrive but start nothing, the cache stays empty
\* until the round's own ending writes it, and between rounds the cache is
\* not touched.
C16_RoundsDoNotOverlap ==
  /\ [][first' # first \/ ticks' < ticks =>
          /\ phase = "idle"
          /\ phase' # "idle"
          /\ round.n > 0 => round.emits = 1
          /\ round'.took = cached
          /\ round'.emits = 0]_vars
  /\ [][phase = "idle" /\ phase' = "idle" => cached' = cached /\ round' = round]_vars
  /\ [][phase # "idle" /\ phase' # "idle" =>
          /\ cached' = cached
          /\ round'.n = round.n
          /\ round'.took = round.took]_vars
  /\ [](phase # "idle" => cached = NoAddr /\ round.emits = 0)

\* A tick has arrived while the second round, which took a cached address,
\* is still running.
C16_Witness ==
  /\ phase # "idle"
  /\ round.n = 2
  /\ round.took # NoAddr
  /\ ticks > 0

\* C17: the deadline also bounds name resolution. The deadline is armed
\* while the lookup runs; once it has fired and the lookup has not completed,
\* the timeout arm can be taken at once; and a round that ended without an
\* answer from the resolver ended by the deadline, emitted false, dropped
\* the lookup and left the cache empty.
C17_DeadlineBoundsResolution ==
  /\ phase = "resolving" =>
       /\ round.looked
       /\ deadline \in {"armed", "fired"}
       /\ probes = <<>>
  /\ phase = "resolving" /\ deadline = "fired" /\ lookup = NoResult =>
       ENABLED Timeout
  /\ RoundOver /\ round.looked /\ round.answer = NoResult =>
       /\ round.by = "timeout"
       /\ deadline = "fired"
       /\ round.emits = 1
       /\ ~round.outcome
       /\ cached = NoAddr
       /\ lookup = NoResult
       /\ probes = <<>>
  /\ phase = "idle" => ~ENABLED ResolverCompletes

\* The interval elapsed before the resolver answered: the round is over,
\* by its deadline, without an answer.
C17_Witness ==
  /\ RoundOver
  /\ round.looked
  /\ round.answer = NoResult
  /\ round.by = "timeout"
  /\ ~round.outcome

\* C18: a round does not wait for the deadline once nothing can succeed any
\* more. No state of the race has every probe completed: the step in which
\* the last probe fails, or in which the resolver's answer gives no
\* candidate, is the step that emits false.
C18_FailsWithoutWaiting ==
  /\ phase = "racing" => \E i \in ProbeIds : Running(probes[i])
  /\ RoundOver /\ round.by = "exhausted" =>
       /\ ~round.outcome
       /\ round.emits = 1
       /\ Len(probes) = Len(round.cands)
       /\ \A i \in ProbeIds : ProbeFailed(probes[i])
       /\ round.cands = <<>> =>
            /\ round.looked
            /\ round.answer # NoResult
            /\ ~round.answer.ok \/ round.answer.addrs = <<>>

\* Both candidates of a round failed while its deadline was still running:
\* the round is over.
C18_Witness ==
  /\ RoundOver
  /\ round.by = "exhausted"
  /\ deadline = "armed"
  /\ Len(probes) = 2
  /\ \A i \in ProbeIds : ProbeFailed(probes[i])
  /\ ~round.outcome

\* C19: success has priority over the deadline. While a probe of the race
\* has been woken and not yet polled, the fired deadline cannot end the
\* round; and a step in which a probe completes successfully ends the round
\* with true and caches that probe's address, whether or not the deadline
\* has fired.
C19_SuccessBeforeDeadline ==
  /\ [](phase = "racing" /\ deadline = "fired"
          /\ (\E i \in ProbeIds : Woken(probes[i])) => ~ENABLED Timeout)
  /\ [][phase = "racing" /\ (\E i \in 1..Len(probes') : probes'[i].res = "Ok") =>
          /\ phase' = "idle"
          /\ round'.by = "success"
          /\ round'.outcome
          /\ round'.emits = 1
          /\ round'.winner \in 1..Len(probes')
          /\ probes'[round'.winner].res = "Ok"
          /\ cached' = probes'[round'.winner].addr]_vars
  /\ [][deadline = "fired" /\ (\E i \in ProbeIds : Woken(probes[i]))
          /\ phase = "racing" /\ phase' = "idle" => round'.by # "timeout"]_vars

\* The deadline had fired when the reply was read: the round emitted true
\* and cached the address.
C19_Witness ==
  /\ RoundOver
  /\ deadline = "fired"
  /\ round.by = "success"
  /\ round.outcome
  /\ round.winner \in ProbeIds
  /\ cached = probes[round.winner].addr

\* C20: when the target is a literal address, the cache is empty or holds
\* that address, every round has that address as its one candidate, and no
\* lookup is ever started or answered.
C20_LiteralTarget ==
  target.kind = "Addr" =>
    /\ cached \in {NoAddr, target.addr}
    /\ phase # "resolving"
    /\ lookup = NoResult
    /\ ~ENABLED ResolverCompletes
    /\ round.n > 0 =>
         /\ round.took \in {NoAddr, target.addr}
         /\ round.cands = <<target.addr>>
         /\ ~round.looked
         /\ round.answer = NoResult
         /\ Len(probes) = 1
         /\ probes[1].addr = target.addr

\* The second round of a literal target took the cached literal address,
\* probed it and cached it again.
C20_Witness ==
  /\ target.kind = "Addr"
  /\ RoundOver
  /\ round.n = 2
  /\ round.took = target.addr
  /\ round.outcome
  /\ cached = target.addr

\* The datagrams call i has sent.
SentBy(i) == {k \in 1..Len(net) : net[k].from = i}

\* C11: a wol() call is Ok only when it has sent exactly one datagram of 102
\* bytes to 255.255.255.255 port 9 from an open, broadcast-enabled IPv4 UDP
\* socket. A socket that could not be made, a socket that is not writable
\* and a failed send each end the call with an error; a call whose socket
\* was not writable, or whose send failed, has sent nothing; a send of
\* another length than 102 ends the call by a panic, not by a result.
C11_WakeContract ==
  \A i \in 1..MaxCalls :
    LET c == calls[i]
    IN /\ Cardinality(SentBy(i)) <= 1
       /\ c.res \in {"none", "running", "Ok", "SocketSetup", "NotWritable",
                     "SendError", "Panic"}
       /\ c.res = "Ok" =>
            /\ c.wcond = {"OUT"}
            /\ c.sent = MagicLen
            /\ Cardinality(SentBy(i)) = 1
            /\ \A k \in SentBy(i) :
                 /\ Len(net[k].bytes) = MagicLen
                 /\ net[k].to = BroadcastAddr
                 /\ net[k].port = DiscardPort
                 /\ net[k].sock = [state |-> "open", family |-> "Ipv4",
                                   type |-> "Datagram", protocol |-> "Udp",
                                   broadcast |-> TRUE]
       /\ c.pc = "done" /\ c.sock.state = "none" =>
            c.res = "SocketSetup" /\ SentBy(i) = {}
       /\ c.pc = "done" /\ c.sock.state # "none" /\ c.wcond # {"OUT"} =>
            c.res = "NotWritable" /\ SentBy(i) = {} /\ c.sent = NotYet
       /\ c.sent = IoErr => c.res = "SendError" /\ SentBy(i) = {}
       /\ c.sent \notin {NotYet, IoErr, MagicLen} => c.res = "Panic"
       /\ c.pc = "done" => c.sock.state \in {"none", "closed"}

\* One call has succeeded with its one datagram out; the socket of another
\* was not writable and it failed without sending.
C11_Witness ==
  \E i, j \in 1..MaxCalls :
    /\ calls[i].res = "Ok"
    /\ calls[j].res = "NotWritable"
    /\ Len(net) = 1
    /\ net[1].from = i
    /\ Len(net[1].bytes) = MagicLen

\* C12: the packet written for a 6-byte address is 102 bytes long; bytes
\* 0..5 are 0xff and byte 6 + 6*i + j is byte j of the address, for i in
\* 0..15 and j in 0..5. The write succeeds whenever the sink takes 102
\* bytes, and only then.
C12_MagicPacketLayout ==
  packet.bytes # <<>> =>
    /\ packet.ok <=> packet.cap >= MagicLen
    /\ packet.ok =>
         /\ Len(packet.bytes) = MagicLen
         /\ \A k \in 0..(MacLen - 1) : packet.bytes[k + 1] = SyncByte
         /\ \A i \in 0..(Repetitions - 1) : \A j \in 0..(MacLen - 1) :
              packet.bytes[MacLen + MacLen * i + j + 1] = mac[j + 1]

\* A packet has been written for an address that starts with 0x26 and ends
\* with 0x00.
C12_Witness ==
  /\ packet.ok
  /\ Len(packet.bytes) = MagicLen
  /\ mac[1] = 38
  /\ mac[MacLen] = 0
  /\ packet.bytes[MacLen + 1] = 38
  /\ packet.bytes[MagicLen] = 0

\* The magic packet of address m, byte by byte.
PacketFor(m) ==
  [k \in 1..MagicLen |-> IF k <= MacLen THEN SyncByte
                         ELSE m[((k - MacLen - 1) % MacLen) + 1]]

\* C14: wol() calls are independent. A step of one call changes no other
\* call and appends to the network only datagrams of its own; the payload a
\* call builds and the bytes it sends are the packet of its own address,
\* sent from its own socket; a call can always be made, whatever the other
\* calls have done.
C14_CallsIndependent ==
  /\ [][\A i \in 1..MaxCalls : calls'[i] # calls[i] =>
          /\ \A j \in 1..MaxCalls \ {i} : calls'[j] = calls[j]
          /\ Len(net') >= Len(net)
          /\ SubSeq(net', 1, Len(net)) = net
          /\ \A k \in (Len(net) + 1)..Len(net') :
               net'[k].from = i /\ net'[k].sock = calls[i].sock]_vars
  /\ [][net' # net => \E i \in 1..MaxCalls : calls'[i] # calls[i]]_vars
  /\ [](\A i \in 1..MaxCalls :
          /\ calls[i].payload # <<>> => calls[i].payload = PacketFor(calls[i].mac)
          /\ calls[i].pc = "idle" => ENABLED Wol(i))
  /\ [](\A k \in 1..Len(net) :
          net[k].bytes = SubSeq(PacketFor(calls[net[k].from].mac), 1,
                                Len(net[k].bytes)))

\* Two calls with the same address have both succeeded; each has sent its
\* own datagram, with the same bytes.
C14_Witness ==
  /\ calls[1].res = "Ok"
  /\ calls[2].res = "Ok"
  /\ calls[1].mac = calls[2].mac
  /\ Len(net) = 2
  /\ net[1].from # net[2].from
  /\ net[1].bytes = net[2].bytes
  /\ net[1].bytes = PacketFor(calls[1].mac)

\* C13: Target::from is total and round-trips. Every text gets a target;
\* the text Display writes for an address gives the literal target of that
\* very address; a text that is no IP literal gives the DNS target that
\* holds the text itself.
C13_ParseTotalRoundTrip ==
  /\ [][text # NoText /\ parsed = NoTarget =>
          parsed' # NoTarget /\ text' = text]_vars
  /\ [](parsed # NoTarget =>
          /\ parsed.kind \in {"Addr", "Dns"}
          /\ ip # NoIp =>
               parsed = [kind |-> "Addr", addr |-> ip, host |-> NoText]
          /\ text \in InvalidTexts =>
               parsed = [kind |-> "Dns", addr |-> NoIp, host |-> text]
          /\ text \in OddLiterals => parsed.kind = "Addr" /\ parsed.addr # NoIp)

\* The address 0:0:a:0:0:0:0:ffff was written as "0:0:a::ffff" and that
\* text was parsed back to it.
C13_Witness ==
  /\ ip = [v |-> 6, parts |-> <<0, 0, 10, 0, 0, 0, 0, 65535>>]
  /\ text = <<"0", ":", "0", ":", "a", ":", ":", "f", "f", "f", "f">>
  /\ parsed = [kind |-> "Addr", addr |-> ip, host |-> NoText]

====
